---------------------------- MODULE Spec2Model ----------------------------
(***************************************************************************)
(* A model of the FPL transfer optimiser: the free-transfer ledger         *)
(* (TeamRepository._calculate_free_transfers), the expected-points engine  *)
(* (ExpectedPointsService), the selling-price / budget calculation and the *)
(* multi-gameweek transfer MIP with its plan extractor                     *)
(* (TransferSolverService).                                                *)
(*                                                                         *)
(* Units.  Prices are integer tenths of a million; a selling price is kept *)
(* in twentieths (half tenths) because the code halves a profit without    *)
(* rounding.  Expected points are integer tenths of a point.  A discount   *)
(* factor is a pair <<num, den>>; discounted totals of an N-week plan are  *)
(* kept in units of 1 / den^(N-1) tenths of a point.                       *)
(***************************************************************************)
EXTENDS Integers, Sequences, FiniteSets, TLC

VARIABLES
    \* ---- free-transfer ledger (team_repository.py) ----
    lpc,             \* "call" | "loop" | "returned"
    fetch_ok,        \* did get_entry_history succeed
    current_event,   \* the entry's current (last completed) gameweek
    hist_len,        \* len(current_history)
    first_event,     \* event of current_history[0]; records are consecutive
    idx,             \* records of current_history consumed by the loop
    available_ft,    \* the loop's running count
    ft_result,       \* the value returned
    all_idle,        \* every record consumed so far: no chip, no transfers
    gw_data,         \* the record the loop consumed last
    \* ---- expected-points engine (expected_points_service.py) ----
    xpc,             \* "call" | "loop" | "returned"
    player,          \* the bootstrap element being processed
    fixtures,        \* per horizon step: the fixture found, or NoFixture
    gameweek_points, \* the list built for the player, in tenths
    \* ---- transfer solver (transfer_solver_service.py) ----
    pc,              \* "start" | "budgeted" | "solved" | "failed" | "planned"
    inst,            \* the inputs of solve_transfers
    selling_prices,  \* player id -> selling price, in twentieths
    total_budget,    \* in twentieths
    solution,        \* the solver's values
    plan,            \* the TransferPlan
    \* ---- solver backends (transfer_solver_service.py:457-537) ----
    bpc,             \* "list" | "loop" | "returned" | "raised"
    query_ok,        \* did installed_solvers() return
    installed,       \* the backends installed_solvers() names
    outcome,         \* backend -> how its problem.solve ends
    solvers_to_try,  \* the list built for the loop
    attempts,        \* the backends attempted so far, in order
    solved,          \* the loop's flag
    held,            \* the backend whose values the variables hold
    returned_values, \* what reaches the caller
    \* ---- upstream client (fpl_client.py, team_repository.py:64-70) ----
    cpc,             \* "get" | "team" | "done"
    upstream,        \* attempt number -> how client.get would end
    attempt_number,  \* calls of the body of FPLClient.get so far
    get_outcome,     \* "data", or the exception FPLClient.get raises
    team_outcome,    \* "team", or the exception get_team_by_id raises
    \* ---- plan endpoint (teams.py:101-182) ----
    epc,             \* "start" | "solving" | "solved" | "responded" | "raised"
    team,            \* the Team returned by get_team_by_id
    num_gameweeks,   \* the query parameter
    solve_ends,      \* how solve_transfers would end: "plan" | "raises"
    solve_args,      \* the arguments passed to solve_transfers
    builder_calls,   \* calls of _solve_cvxpy_model (the MIP builder)
    backend_runs,    \* runs of the backend loop
    response,        \* the TransferPlanResponse
    \* ---- expected-points table (expected_points_service.py:350-411) ----
    tpc,             \* "loop" | "returned" | "raised"
    players_data,    \* the bootstrap elements, each with what is wrong with it
    expected_points_map, \* the entries stored so far: <<id, gameweek_points>>
    \* ---- plan gameweek (teams.py:166-176, expected_points_service.py:310-328) ----
    gpc,             \* "start" | "tabled" | "planned"
    events_data,     \* the bootstrap events: id, is_next, finished
    entry_event,     \* the entry's current_event
    next_event_id,   \* the gameweek of horizon step 0; 0 when there is none
    current_gameweek,\* the plan's current_gameweek
    \* ---- picks cache (team_repository.py:81-144, teams.py:130-133) ----
    kpc,             \* "serving"
    picks_cached,    \* the picks cache holds a non-empty list for the entry
    upstream_picks,  \* the number of picks upstream returns
    has_history,     \* the upstream picks answer carries entry_history
    ledger_value,    \* what _calculate_free_transfers returns for the entry
    passed_counts,   \* per request served: the free_transfers given to the solver
    \* ---- read-through caches (redis_cache.py, team_repository.py:146-293) ----
    rpc,             \* "serving"
    upstream_xp,     \* player id -> expected points computed from upstream
    squad_picks,     \* the elements of the entry's picks
    lookup_cache,    \* the entries held under fpl:players:lookup
    xp_cache,        \* the entries held under fpl:expected_points:all
    enriched,        \* per call: the enriched picks
    \* ---- purchase prices (team_repository.py:203-239) ----
    ppc,             \* "call" | "loop" | "returned"
    transfers_ok,    \* did get_entry_transfers succeed
    transfers_data,  \* the upstream transfer records, newest first
    replayed,        \* records consumed by the loop
    purchase_prices, \* the dict being built: a set of <<player, cost>>
    pick_purchase    \* player -> the purchase price the solver uses

ledgerVars == <<lpc, fetch_ok, current_event, hist_len, first_event, idx,
                available_ft, ft_result, all_idle, gw_data>>
xpVars     == <<xpc, player, fixtures, gameweek_points>>
solverVars == <<pc, inst, selling_prices, total_budget, solution, plan>>
backendVars == <<bpc, query_ok, installed, outcome, solvers_to_try, attempts,
                 solved, held, returned_values>>
clientVars == <<cpc, upstream, attempt_number, get_outcome, team_outcome>>
endpointVars == <<epc, team, num_gameweeks, solve_ends, solve_args,
                  builder_calls, backend_runs, response>>
tableVars == <<tpc, players_data, expected_points_map>>
gameweekVars == <<gpc, events_data, entry_event, next_event_id, current_gameweek>>
picksVars == <<kpc, picks_cached, upstream_picks, has_history, ledger_value,
               passed_counts>>
cacheVars == <<rpc, upstream_xp, squad_picks, lookup_cache, xp_cache, enriched>>
purchaseVars == <<ppc, transfers_ok, transfers_data, replayed, purchase_prices,
                  pick_purchase>>
vars       == <<ledgerVars, xpVars, solverVars, backendVars, clientVars, endpointVars, tableVars, gameweekVars, picksVars, cacheVars, purchaseVars>>

\* What each component leaves alone: the variables of the others.
ledgerFrame == <<xpVars, solverVars, backendVars, clientVars, endpointVars, tableVars, gameweekVars, picksVars, cacheVars, purchaseVars>>
xpFrame == <<ledgerVars, solverVars, backendVars, clientVars, endpointVars, tableVars, gameweekVars, picksVars, cacheVars, purchaseVars>>
solverFrame == <<ledgerVars, xpVars, backendVars, clientVars, endpointVars, tableVars, gameweekVars, picksVars, cacheVars, purchaseVars>>
backendFrame == <<ledgerVars, xpVars, solverVars, clientVars, endpointVars, tableVars, gameweekVars, picksVars, cacheVars, purchaseVars>>
clientFrame == <<ledgerVars, xpVars, solverVars, backendVars, endpointVars, tableVars, gameweekVars, picksVars, cacheVars, purchaseVars>>
endpointFrame == <<ledgerVars, xpVars, solverVars, backendVars, clientVars, tableVars, gameweekVars, picksVars, cacheVars, purchaseVars>>
tableFrame == <<ledgerVars, xpVars, solverVars, backendVars, clientVars, endpointVars, gameweekVars, picksVars, cacheVars, purchaseVars>>
gameweekFrame == <<ledgerVars, xpVars, solverVars, backendVars, clientVars, endpointVars, tableVars, picksVars, cacheVars, purchaseVars>>
picksFrame == <<ledgerVars, xpVars, solverVars, backendVars, clientVars, endpointVars, tableVars, gameweekVars, cacheVars, purchaseVars>>
cacheFrame == <<ledgerVars, xpVars, solverVars, backendVars, clientVars, endpointVars, tableVars, gameweekVars, picksVars, purchaseVars>>
purchaseFrame == <<ledgerVars, xpVars, solverVars, backendVars, clientVars, endpointVars, tableVars, gameweekVars, picksVars, cacheVars>>

Min(a, b) == IF a <= b THEN a ELSE b
Max(a, b) == IF a >= b THEN a ELSE b

None == "None"

(***************************************************************************)
(* Bounds of the model.                                                    *)
(***************************************************************************)
MaxGW == 7          \* longest gameweek history replayed by the ledger
MaxN  == 3          \* longest planning horizon solved
MaxPlayers == 11    \* elements of the bootstrap list walked by the table
MaxEvents == 4      \* events in the bootstrap list
MaxRequests == 3    \* plan generations served for one entry
MaxTransfers == 3   \* records in an entry's transfer history

-----------------------------------------------------------------------------
(***************************************************************************)
(* FREE-TRANSFER LEDGER                                                    *)
(***************************************************************************)
MAX_BANKED_FT == 5
HIT_POINTS == 4

Chips == {None, "wildcard", "freehit", "bboost", "3xc"}

\* One record of history["current"]: the fields the ledger reads.
GWRecords ==
    [active_chip : Chips, event_transfers : 0..2, event_transfers_cost : {0, 4, 8}]

IdleRecord(rec) ==
    /\ rec.active_chip = None
    /\ rec.event_transfers = 0
    /\ rec.event_transfers_cost = 0

\* team_repository.py:362-369: a hit was taken.
AfterHit(ft, rec) ==
    LET paid_transfers == rec.event_transfers_cost \div HIT_POINTS
        free_used      == rec.event_transfers - paid_transfers
    IN  Max(0, ft - free_used) + 1

\* team_repository.py:370-375: free transfers only.
AfterFreeTransfers(ft, rec) == Max(1, ft - rec.event_transfers + 1)

BankFreeTransferNoCap(ft) == ft + 1

\* team_repository.py:376-378: no transfers, bank one (max 5).
BankFreeTransfer(ft) == Min(ft + 1, MAX_BANKED_FT)

\* team_repository.py:346-380: the body of the loop for one record.
LedgerUpdate(ft, rec) ==
    IF rec.active_chip \in {"wildcard", "freehit"} THEN 1
    ELSE IF rec.event_transfers_cost > 0 THEN AfterHit(ft, rec)
    ELSE IF rec.event_transfers > 0 THEN AfterFreeTransfers(ft, rec)
    ELSE BankFreeTransfer(ft)

\* Before the loop has consumed a record.
NoRecord ==
    [active_chip |-> None, event_transfers |-> 0, event_transfers_cost |-> 0]

LedgerIdle ==
    /\ lpc = "off" /\ fetch_ok = TRUE /\ current_event = 0 /\ hist_len = 0
    /\ first_event = 1 /\ idx = 0 /\ available_ft = 0 /\ ft_result = 0
    /\ all_idle = TRUE /\ gw_data = NoRecord

LedgerInit ==
    /\ lpc = "call"
    /\ fetch_ok \in BOOLEAN
    /\ current_event \in 0..MaxGW
    /\ hist_len \in 0..MaxGW
    /\ first_event \in 1..2
    /\ idx = 0
    /\ available_ft = 0
    /\ ft_result = 0
    /\ all_idle = TRUE
    /\ gw_data = NoRecord

\* team_repository.py:305-315 and 387-389: fetch the history; default to 1
\* on an exception, on an empty history and on current_event < 1.
LedgerCall ==
    /\ lpc = "call"
    /\ IF ~fetch_ok \/ hist_len = 0 \/ current_event < 1
       THEN /\ lpc' = "returned"
            /\ ft_result' = 1
       ELSE /\ lpc' = "loop"
            /\ UNCHANGED ft_result
    /\ UNCHANGED <<fetch_ok, current_event, hist_len, first_event, idx,
                   available_ft, all_idle, gw_data>>
    /\ UNCHANGED ledgerFrame

\* team_repository.py:339-380: one iteration over the next record.
LedgerStep ==
    /\ lpc = "loop"
    /\ idx < hist_len
    /\ first_event + idx <= current_event
    /\ \E rec \in GWRecords :
          /\ available_ft' = LedgerUpdate(available_ft, rec)
          /\ all_idle' = (all_idle /\ IdleRecord(rec))
          /\ gw_data' = rec
    /\ idx' = idx + 1
    /\ UNCHANGED <<lpc, fetch_ok, current_event, hist_len, first_event, ft_result>>
    /\ UNCHANGED ledgerFrame

\* team_repository.py:343-344 and 382-385: the loop ends (break on a later
\* event, or the list is exhausted) and available_ft is returned.
LedgerReturn ==
    /\ lpc = "loop"
    /\ idx = hist_len \/ first_event + idx > current_event
    /\ lpc' = "returned"
    /\ ft_result' = available_ft
    /\ UNCHANGED <<fetch_ok, current_event, hist_len, first_event, idx,
                   available_ft, all_idle, gw_data>>
    /\ UNCHANGED ledgerFrame

LedgerNext == LedgerCall \/ LedgerStep \/ LedgerReturn


-----------------------------------------------------------------------------
(***************************************************************************)
(* EXPECTED-POINTS ENGINE                                                  *)
(*                                                                         *)
(* A bootstrap element carries form in tenths, minutes, starts, the        *)
(* position and the cumulative xGI and xGC in hundredths.  The engine's    *)
(* float arithmetic is done here on exact fractions: with g = max(starts,  *)
(* 1) every intermediate value is a multiple of 1 / XPDenominator(g).      *)
(***************************************************************************)
POS_GK  == 1
POS_DEF == 2
POS_MID == 3
POS_FWD == 4

NoFixture == [event |-> 0, team_h |-> 0, team_a |-> 0,
              team_h_difficulty |-> 3, team_a_difficulty |-> 3]

XPDenominator(g) == 7200000 * g * g

\* expected_points_service.py:171-181: form, or a stand-in for a regular
\* starter without form.  In units of 1 / (20 g).
BaseScore(p, g) ==
    IF p.form = 0 /\ p.minutes > 60 * g
    THEN IF p.element_type \in {POS_MID, POS_FWD}
         THEN LET xgi20 == IF p.xgi > 0 THEN p.xgi ELSE 0   \* xgi_pg * 5 = xgi20 / (20 g)
              IN  Max(30 * g, Min(xgi20, 60 * g))
         ELSE 40 * g
    ELSE 2 * g * p.form

\* expected_points_service.py:183-209: fixture_multiplier * home_multiplier,
\* in units of 1/400 (each factor in twentieths).
FixtureFactor(p, fixture) ==
    IF fixture = NoFixture THEN 20 * 20
    ELSE LET is_home    == fixture.team_h = p.team
             difficulty == IF is_home THEN fixture.team_h_difficulty
                                      ELSE fixture.team_a_difficulty
         IN  (20 + (3 - difficulty) * 3) * (IF is_home THEN 22 ELSE 19)

\* expected_points_service.py:211-213: 0.3 + min(avg/90, 1.0) * 0.7, in units
\* of 1 / (900 g).
MinutesMultiplier(p, g) == 270 * g + 7 * Min(p.minutes, 90 * g)

\* expected_points_service.py:215-250: the position-specific adjustment, in
\* units of 1 / (1000 g).
UnderlyingAdjustment(p, g) ==
    IF p.element_type \in {POS_MID, POS_FWD}
    THEN 10 * Max(-50 * g, Min(100 * g, p.xgi - 5 * p.form * g))
    ELSE IF p.element_type = POS_DEF
    THEN (IF p.xgc < 100 * g THEN 5 * (100 * g - p.xgc)
          ELSE IF p.xgc > 120 * g THEN 3 * (120 * g - p.xgc)
          ELSE 0)
         + (IF p.xgi > 10 * g THEN 5 * p.xgi ELSE 0)
    ELSE IF p.element_type = POS_GK
    THEN (IF p.xgc < 100 * g THEN 8 * (100 * g - p.xgc)
          ELSE IF p.xgc > 150 * g THEN 4 * (150 * g - p.xgc)
          ELSE 0)
    ELSE 0

\* round(x, 1) of x = n / d, in tenths (ties to even).
RoundTenths(n, d) ==
    LET u == d \div 10
        k == n \div u
        r == n % u
    IN  IF 2 * r < u THEN k
        ELSE IF 2 * r > u THEN k + 1
        ELSE IF k % 2 = 0 THEN k ELSE k + 1

HasNotPlayedMinutesOnly(p) == p.minutes = 0

\* expected_points_service.py:155-157: the player has not played at all.
HasNotPlayed(p) == p.starts = 0 \/ p.minutes = 0

EnsureRangeNoFloor(total, d) == Min(total, 8 * d)

\* expected_points_service.py:262-266: max(0.5, min(expected_points, 8.0)),
\* for a value total / d.
EnsureRange(total, d) == Max(d \div 2, Min(total, 8 * d))

\* expected_points_service.py:148-286: _calculate_player_expected_points,
\* the result in tenths of a point.
CalculatePlayerExpectedPoints(p, fixture) ==
    IF HasNotPlayed(p) THEN 10
    ELSE LET g      == Max(p.starts, 1)
             d      == XPDenominator(g)
             raw    == BaseScore(p, g) * FixtureFactor(p, fixture)
                           * MinutesMultiplier(p, g)
             capped == Min(raw, 8 * d)
             adj    == Max(-1000 * g, Min(UnderlyingAdjustment(p, g), 1500 * g))
             total  == capped + 7200 * g * adj
         IN  RoundTenths(EnsureRange(total, d), d)

\* expected_points_service.py:330-348: the first fixture of the gameweek
\* that involves the team, else None.
RECURSIVE GetNextFixtureForTeam(_, _, _)
GetNextFixtureForTeam(fixtures_data, team_id, event_id) ==
    IF fixtures_data = <<>> THEN NoFixture
    ELSE LET fixture == Head(fixtures_data)
         IN  IF /\ fixture.event = event_id
                /\ (fixture.team_h = team_id \/ fixture.team_a = team_id)
             THEN fixture
             ELSE GetNextFixtureForTeam(Tail(fixtures_data), team_id, event_id)

\* The inputs explored.
XPPlayers ==
    [team : {1}, element_type : {POS_GK, POS_DEF, POS_MID, POS_FWD},
     form : {0, 20, 55, 100}, xgi : {0, 30, 250}, xgc : {50, 110, 400}]

MinutesAndStarts == {<<0, 0>>, <<30, 0>>, <<90, 1>>, <<100, 2>>, <<124, 2>>, <<360, 4>>}

FixtureRecords ==
    [event : 1..MaxN, team_h : {1}, team_a : {2},
     team_h_difficulty : 1..5, team_a_difficulty : {3}]
    \cup
    [event : 1..MaxN, team_h : {2}, team_a : {1},
     team_h_difficulty : {3}, team_a_difficulty : 1..5]
    \cup
    [event : {1}, team_h : {2}, team_a : {3},
     team_h_difficulty : {2}, team_a_difficulty : {4}]

\* A double gameweek (two fixtures of the same event) is in the lists.
FixtureLists ==
    {<<>>} \cup {<<f>> : f \in FixtureRecords}
    \cup {<<f, h>> : f \in {r \in FixtureRecords : r.event = 1 /\ r.team_h_difficulty \in {1, 3}},
                     h \in {r \in FixtureRecords : r.event \in {1, 2} /\ r.team_a_difficulty \in {3, 5}}}

XPIdle ==
    /\ xpc = "off" /\ player = None /\ fixtures = <<>> /\ gameweek_points = <<>>

\* The engine is entered with next_event_id = 1 (events are numbered from
\* the next gameweek) for a horizon of num_gameweeks = MaxN steps.
XPInit ==
    /\ xpc = "loop"
    /\ \E p \in XPPlayers, ms \in MinutesAndStarts :
          player = [team |-> p.team, element_type |-> p.element_type,
                    form |-> p.form, xgi |-> p.xgi, xgc |-> p.xgc,
                    minutes |-> ms[1], starts |-> ms[2]]
    /\ fixtures \in FixtureLists
    /\ gameweek_points = <<>>

\* expected_points_service.py:390-403: one horizon step for the player.
XPStep ==
    /\ xpc = "loop"
    /\ Len(gameweek_points) < MaxN
    /\ LET i        == Len(gameweek_points)
           event_id == 1 + i
           fixture  == GetNextFixtureForTeam(fixtures, player.team, event_id)
       IN  gameweek_points' =
               Append(gameweek_points, CalculatePlayerExpectedPoints(player, fixture))
    /\ UNCHANGED <<xpc, player, fixtures>>
    /\ UNCHANGED xpFrame

\* expected_points_service.py:405: the player's list is stored in the map.
XPStore ==
    /\ xpc = "loop"
    /\ Len(gameweek_points) = MaxN
    /\ xpc' = "returned"
    /\ UNCHANGED <<player, fixtures, gameweek_points>>
    /\ UNCHANGED xpFrame

XPNext == XPStep \/ XPStore

-----------------------------------------------------------------------------
(***************************************************************************)
(* TRANSFER SOLVER: inputs                                                 *)
(***************************************************************************)
SQUAD_SIZE == 15
STARTING_XI_SIZE == 11
NUM_GK == 2
NUM_DEF == 5
NUM_MID == 5
NUM_FWD == 3
MAX_PLAYERS_PER_TEAM == 3
TRANSFER_PENALTY == 4
FREE_TRANSFERS_PER_WEEK == 1
MAX_FREE_TRANSFERS == 5
FT_FLEXIBILITY_VALUE == 5     \* 0.5 points, in tenths

\* all_players: the bootstrap elements the solver sees (id = index).
\* Players 1..15 are the 15 cheapest legal 2-5-5-3 lineup; 16 and 17 are
\* forwards outside it, 16 of the club that already has three squad members.
AllPlayers == <<
    [element_type |-> POS_GK,  team |-> 2, now_cost |-> 40],
    [element_type |-> POS_GK,  team |-> 3, now_cost |-> 40],
    [element_type |-> POS_DEF, team |-> 1, now_cost |-> 40],
    [element_type |-> POS_DEF, team |-> 2, now_cost |-> 40],
    [element_type |-> POS_DEF, team |-> 3, now_cost |-> 40],
    [element_type |-> POS_DEF, team |-> 4, now_cost |-> 40],
    [element_type |-> POS_DEF, team |-> 4, now_cost |-> 40],
    [element_type |-> POS_MID, team |-> 1, now_cost |-> 45],
    [element_type |-> POS_MID, team |-> 2, now_cost |-> 45],
    [element_type |-> POS_MID, team |-> 3, now_cost |-> 45],
    [element_type |-> POS_MID, team |-> 4, now_cost |-> 45],
    [element_type |-> POS_MID, team |-> 5, now_cost |-> 45],
    [element_type |-> POS_FWD, team |-> 1, now_cost |-> 45],
    [element_type |-> POS_FWD, team |-> 5, now_cost |-> 45],
    [element_type |-> POS_FWD, team |-> 5, now_cost |-> 45],
    [element_type |-> POS_FWD, team |-> 1, now_cost |-> 60],
    [element_type |-> POS_FWD, team |-> 6, now_cost |-> 45] >>

PlayerIds == DOMAIN AllPlayers
Teams == 1..20
Positions == {POS_GK, POS_DEF, POS_MID, POS_FWD}

\* A pick of a player who is no longer among the bootstrap elements.
DepartedId == 99

\* expected_points_map, per scenario: the expected points of player i at
\* horizon step t, in tenths.  Goalkeepers, defenders and midfielders keep
\* one value; the forwards vary with the scenario.
Scenarios == {"hold", "swap", "late"}

\* player.expected_points (tenths) per horizon step: the row of week t.
ExpectedPoints(sc, t) ==
    <<40, 30, 50, 45, 40, 20, 15, 60, 55, 50, 45, 10>>
        \o (IF sc = "hold" THEN <<60, 55, 50, 10, 12>>
            ELSE IF sc = "swap" THEN <<60, 55, 5, 10, 65>>
            ELSE IF t = 0 THEN <<60, 55, 50, 10, 12>>
            ELSE IF t = 1 THEN <<60, 5, 62, 10, 80>>
            ELSE <<5, 80, 6, 78, 79>>)

\* The entry: bank (tenths), the picked ids and their purchase prices
\* (0: none recorded).
Entries ==
    { [bank |-> 0,  picks |-> 1..15, bought |-> [i \in 1..15 |-> 0]],
      [bank |-> 15, picks |-> 1..15, bought |-> [i \in 1..15 |-> 0]],
      [bank |-> 15, picks |-> 1..15,
       bought |-> [i \in 1..15 |-> IF i = 13 THEN 42 ELSE IF i = 14 THEN 50 ELSE 0]],
      [bank |-> 0,  picks |-> 1..15,
       bought |-> [i \in 1..15 |-> IF i = 13 THEN 42 ELSE 0]],
      [bank |-> 15, picks |-> (1..11) \cup {DepartedId} \cup (13..15),
       bought |-> [i \in (1..11) \cup {DepartedId} \cup (13..15) |-> 0]] }

DiscountFactors == {<<1, 2>>, <<9, 10>>, <<1, 1>>}

\* The inputs of solve_transfers explored.  The entry that still holds a
\* departed player is explored at the shortest horizon.
Instances ==
    { I \in [num_gameweeks : 1..MaxN, discount_factor : DiscountFactors,
             free_transfers : {0, 1, 2, 5}, scenario : Scenarios, entry : Entries] :
        DepartedId \in I.entry.picks => I.num_gameweeks = 1 }

RECURSIVE Pow(_, _)
Pow(b, e) == IF e = 0 THEN 1 ELSE b * Pow(b, e - 1)

\* transfer_solver_service.py:305: discount_factor ** gw, times den^(N-1).
Discount(I, t) ==
    Pow(I.discount_factor[1], t) * Pow(I.discount_factor[2], I.num_gameweeks - 1 - t)

RECURSIVE SumOver(_, _)
SumOver(S, f) ==
    IF S = {} THEN 0
    ELSE LET e == CHOOSE x \in S : TRUE IN f[e] + SumOver(S \ {e}, f)

\* The subsets of S with k elements.
RECURSIVE KSubsets(_, _)
KSubsets(S, k) ==
    IF k = 0 THEN {{}}
    ELSE IF k < 0 \/ k > Cardinality(S) THEN {}
    ELSE UNION { { X \cup {e} : X \in KSubsets({x \in S : x > e}, k - 1) } : e \in S }

-----------------------------------------------------------------------------
(***************************************************************************)
(* Selling prices and budget                                               *)
(***************************************************************************)
\* transfer_solver_service.py:212-232, in twentieths of a million.
SellingPrice(player_id, purchase_price) ==
    IF player_id \notin PlayerIds THEN 0
    ELSE LET current_price == AllPlayers[player_id].now_cost
             purchase      == IF purchase_price # 0 THEN purchase_price
                              ELSE AllPlayers[player_id].now_cost
         IN  IF current_price >= purchase
             THEN 2 * purchase + (current_price - purchase)
             ELSE 2 * current_price

\* transfer_solver_service.py:194-234.
CalculateSellingPrices(entry) ==
    [i \in entry.picks |-> SellingPrice(i, entry.bought[i])]

\* transfer_solver_service.py:236-258, in twentieths.
CalculateTotalBudget(entry, prices) ==
    2 * entry.bank + SumOver(entry.picks, prices)

-----------------------------------------------------------------------------
(***************************************************************************)
(* The mixed-integer program.  A 0/1 vector over the players is the set of *)
(* players at which it is 1.                                               *)
(***************************************************************************)
PositionCount(S, position) ==
    Cardinality({i \in S : AllPlayers[i].element_type = position})

TeamCount(S, team_id) == Cardinality({i \in S : AllPlayers[i].team = team_id})

\* cp.sum(v * coefficients) for a 0/1 vector v (the set S) and a row of
\* coefficients over the players.
RECURSIVE DotFrom(_, _, _)
DotFrom(S, row, i) ==
    IF i > Len(row) THEN 0
    ELSE (IF i \in S THEN row[i] ELSE 0) + DotFrom(S, row, i + 1)

Dot(S, row) == DotFrom(S, row, 1)

\* transfer_solver_service.py:293.
PlayerCosts == [i \in PlayerIds |-> AllPlayers[i].now_cost]

SquadCost(S) == Dot(S, PlayerCosts)

\* transfer_solver_service.py:308-311.
CurrentSquadVector(I) == {i \in PlayerIds : i \in I.entry.picks}

SquadQuotaDropped(S) == TRUE

\* transfer_solver_service.py:349-356: squad size and position quotas.
SquadQuota(S) ==
    /\ Cardinality(S) = SQUAD_SIZE
    /\ PositionCount(S, POS_GK) = NUM_GK
    /\ PositionCount(S, POS_DEF) = NUM_DEF
    /\ PositionCount(S, POS_MID) = NUM_MID
    /\ PositionCount(S, POS_FWD) = NUM_FWD

\* transfer_solver_service.py:358-362.
TeamCap(S) == \A team_id \in Teams : TeamCount(S, team_id) <= MAX_PLAYERS_PER_TEAM

\* transfer_solver_service.py:428-430 (both sides in twentieths).
WithinBudget(S, budget) == 2 * SquadCost(S) <= budget

\* transfer_solver_service.py:86-95: (GK, DEF, MID, FWD).
VALID_FORMATIONS ==
    { <<1, 3, 4, 3>>, <<1, 3, 5, 2>>, <<1, 4, 3, 3>>, <<1, 4, 4, 2>>,
      <<1, 4, 5, 1>>, <<1, 5, 3, 2>>, <<1, 5, 4, 1>> }

PlayersAt(S, position) == {i \in S : AllPlayers[i].element_type = position}

AtLeast(S, k) == {X \in SUBSET S : Cardinality(X) >= k}

\* transfer_solver_service.py:364-372: the starting XIs the model admits:
\* 11 of the squad, exactly 1 GK, at least 3 DEF, at least 1 FWD.
StartingXIs(S) ==
    UNION { UNION { UNION {
        { g \cup d \cup f \cup m :
            m \in KSubsets(PlayersAt(S, POS_MID),
                           STARTING_XI_SIZE - 1 - Cardinality(d) - Cardinality(f)) } :
        f \in AtLeast(PlayersAt(S, POS_FWD), 1) } :
        d \in AtLeast(PlayersAt(S, POS_DEF), 3) } :
        g \in KSubsets(PlayersAt(S, POS_GK), 1) }

\* transfer_solver_service.py:298-303: xp_matrix[:, t].
XPRow(I, t) == ExpectedPoints(I.scenario, t)

\* transfer_solver_service.py:439: gameweek_points of a starting XI.
GameweekPoints(X, row) == Dot(X, row)

SetMax(S) == CHOOSE m \in S : \A x \in S : x <= m

\* transfer_solver_service.py:374-397: the transfer pairs admitted from the
\* previous squad: equal numbers in and out, out of the squad only, in from
\* outside only, balanced per position.
TransferPairs(prev) ==
    { pr \in UNION { { <<tin, tout>> : tout \in KSubsets(prev, Cardinality(tin)) } :
                     tin \in SUBSET (PlayerIds \ prev) } :
        \A position \in Positions :
            PositionCount(pr[1], position) = PositionCount(pr[2], position) }

\* transfer_solver_service.py:335-347: week 0 is pinned to the current
\* squad; a later week is the previous squad plus in minus out.
SquadAfter(I, t, prev, tin, tout) ==
    IF t > 0 THEN (prev \cup tin) \ tout ELSE CurrentSquadVector(I)

\* transfer_solver_service.py:349-362, 428-430: the constraints on a squad.
SquadConstraints(S, budget) ==
    /\ SquadQuota(S)
    /\ TeamCap(S)
    /\ WithinBudget(S, budget)

FreeTransferOptionsUncapped(I, t, n, free_available) ==
    { a \in { [paid_transfers |-> paid,
               free_transfers_remaining |->
                   free_available + FREE_TRANSFERS_PER_WEEK - n + paid] :
              paid \in Max(0, n - free_available) .. n } :
        /\ t = 0 => a.free_transfers_remaining = I.free_transfers
        /\ a.free_transfers_remaining >= 0 }

\* transfer_solver_service.py:399-426: the paid-transfer counts and the
\* free-transfer state admitted for n transfers with free_available free.
FreeTransferOptions(I, t, n, free_available) ==
    { a \in { [paid_transfers |-> paid,
               free_transfers_remaining |->
                   free_available + FREE_TRANSFERS_PER_WEEK - n + paid] :
              paid \in Max(0, n - free_available) .. n } :
        /\ t = 0 => a.free_transfers_remaining = I.free_transfers
        /\ a.free_transfers_remaining <= MAX_FREE_TRANSFERS
        /\ a.free_transfers_remaining >= 0 }

\* transfer_solver_service.py:335-430: the values one week may take, given
\* the previous squad and the free transfers available.
WeekOptions(I, budget, t, prev, free_available) ==
    UNION { { [squad |-> SquadAfter(I, t, prev, pr[1], pr[2]),
               transfers_in |-> pr[1],
               transfers_out |-> pr[2],
               paid_transfers |-> a.paid_transfers,
               free_transfers_remaining |-> a.free_transfers_remaining] :
              a \in FreeTransferOptions(I, t, Cardinality(pr[1]), free_available) } :
            pr \in { q \in TransferPairs(prev) :
                       SquadConstraints(SquadAfter(I, t, prev, q[1], q[2]), budget) } }

\* The assignments of squad, transfer and free-transfer variables that
\* satisfy the constraints of weeks t .. N-1: sequences of week values.
RECURSIVE Paths(_, _, _, _, _)
Paths(I, budget, t, prev, free_available) ==
    IF t = I.num_gameweeks THEN {<<>>}
    ELSE LET options == WeekOptions(I, budget, t, prev, free_available)
             carried == { <<w.squad, w.free_transfers_remaining>> : w \in options }
         IN  UNION { LET tails == Paths(I, budget, t + 1, c[1], c[2])
                     IN  { <<w>> \o rest :
                             w \in { o \in options :
                                       <<o.squad, o.free_transfers_remaining>> = c },
                             rest \in tails } :
                     c \in carried }

\* The best gameweek_points a squad's starting XI can reach, per squad and
\* horizon step, with the starting XIs that reach it: tuples
\* <<squad, t, points, XIs>>, for the squads that admit a starting XI.
XITable(I, squads) ==
    UNION { LET xis == StartingXIs(S)
            IN  IF xis = {} THEN {}
                ELSE { LET row  == XPRow(I, t)
                           pts  == { <<X, GameweekPoints(X, row)>> : X \in xis }
                           best == SetMax({ e[2] : e \in pts })
                       IN  <<S, t, best, { e[1] : e \in { d \in pts : d[2] = best } }>> :
                       t \in 0..(I.num_gameweeks - 1) } :
            S \in squads }

XILookup(table, S, t) == CHOOSE e \in table : e[1] = S /\ e[2] = t

\* transfer_solver_service.py:432-455: the objective, with the starting XI
\* at its best, in units of 1 / den^(N-1) tenths of a point.
RECURSIVE Objective(_, _, _, _)
Objective(I, table, path, t) ==
    IF t = I.num_gameweeks THEN 0
    ELSE LET w  == path[t + 1]
             transfer_penalty == TRANSFER_PENALTY * 10 * w.paid_transfers
             ft_bonus == IF t < I.num_gameweeks - 1
                         THEN FT_FLEXIBILITY_VALUE
                                  * Max(0, w.free_transfers_remaining - 1)
                         ELSE 0
         IN  Discount(I, t)
                 * (XILookup(table, w.squad, t)[3] - transfer_penalty + ft_bonus)
             + Objective(I, table, path, t + 1)

\* The starting XIs that reach the table's value, week by week.
RECURSIVE BestStartings(_, _, _, _)
BestStartings(I, table, path, t) ==
    IF t = I.num_gameweeks THEN {<<>>}
    ELSE { <<X>> \o rest :
             X \in XILookup(table, path[t + 1].squad, t)[4],
             rest \in BestStartings(I, table, path, t + 1) }

\* transfer_solver_service.py:260-537: the solutions a backend may return
\* with status optimal: the assignments that satisfy every constraint and
\* maximise the objective.
OptimalSolutions(I, budget) ==
    LET paths    == Paths(I, budget, 0, CurrentSquadVector(I), I.free_transfers)
        table    == XITable(I, UNION { { p[k].squad : k \in DOMAIN p } : p \in paths })
        feasible == { p \in paths :
                        \A k \in DOMAIN p : \E e \in table : e[1] = p[k].squad }
        values   == { <<p, Objective(I, table, p, 0)>> : p \in feasible }
        best     == SetMax({ v[2] : v \in values })
    IN  UNION { { [weeks |-> v[1], starting |-> st, value |-> v[2]] :
                    st \in BestStartings(I, table, v[1], 0) } :
                v \in { u \in values : u[2] = best } }

-----------------------------------------------------------------------------
(***************************************************************************)
(* The plan extractor.                                                     *)
(***************************************************************************)
\* transfer_solver_service.py:570-606: the players at the indices where the
\* vector is set, in index order, then sorted (stably) by position_id.
RECURSIVE SortByPosition(_)
SortByPosition(S) ==
    IF S = {} THEN <<>>
    ELSE LET first == CHOOSE i \in S : \A j \in S :
                          \/ AllPlayers[i].element_type < AllPlayers[j].element_type
                          \/ /\ AllPlayers[i].element_type = AllPlayers[j].element_type
                             /\ i <= j
         IN  <<first>> \o SortByPosition(S \ {first})

\* transfer_solver_service.py:569-646: the weekly solutions, with the
\* extractor's own free-transfer count carried from week to week.
RECURSIVE WeeklySolutions(_, _, _, _)
WeeklySolutions(I, sol, t, free_transfers) ==
    IF t = I.num_gameweeks THEN <<>>
    ELSE LET w == sol.weeks[t + 1]
             transfers_in_list  == SortByPosition(w.transfers_in)
             transfers_out_list == SortByPosition(w.transfers_out)
             gameweek_expected_points == Dot(sol.starting[t + 1], XPRow(I, t))
             num_transfers == Len(transfers_in_list)
             free_used     == Min(num_transfers, free_transfers)
             paid          == Max(0, num_transfers - free_used)
             transfer_cost == paid * TRANSFER_PENALTY
             free_transfers_remaining_this_week ==
                 IF num_transfers > 0 THEN free_transfers - free_used
                 ELSE free_transfers
             next_free_transfers ==
                 Min(MAX_FREE_TRANSFERS,
                     Max(1, free_transfers_remaining_this_week + 1))
         IN  << [gameweek |-> t,
                 transfers_in |-> transfers_in_list,
                 transfers_out |-> transfers_out_list,
                 expected_points |-> gameweek_expected_points,
                 transfer_cost |-> transfer_cost,
                 free_transfers_used |-> free_used,
                 free_transfers_remaining |-> free_transfers_remaining_this_week] >>
             \o WeeklySolutions(I, sol, t + 1, next_free_transfers)

\* transfer_solver_service.py:632-634: the running totals.  Points are in
\* tenths, scaled by den^(N-1); transfer costs are in whole points.
RECURSIVE TotalExpectedPoints(_, _, _)
TotalExpectedPoints(I, weekly, t) ==
    IF t = I.num_gameweeks THEN 0
    ELSE Discount(I, t)
             * (weekly[t + 1].expected_points - 10 * weekly[t + 1].transfer_cost)
         + TotalExpectedPoints(I, weekly, t + 1)

RECURSIVE TotalTransferCost(_, _)
TotalTransferCost(weekly, t) ==
    IF t = Len(weekly) THEN 0
    ELSE weekly[t + 1].transfer_cost + TotalTransferCost(weekly, t + 1)

\* transfer_solver_service.py:683-691: the sum of the k largest values of
\* the squad's points, a pick without a list counting 0.
RECURSIVE TopPoints(_, _, _)
TopPoints(picks, row, k) ==
    IF k = 0 \/ picks = {} THEN 0
    ELSE LET points(i) == IF i \in PlayerIds THEN row[i] ELSE 0
             top == CHOOSE i \in picks : \A j \in picks : points(j) <= points(i)
         IN  points(top) + TopPoints(picks \ {top}, row, k - 1)

\* transfer_solver_service.py:660-695.
RECURSIVE CalculateCurrentExpectedPoints(_, _)
CalculateCurrentExpectedPoints(I, t) ==
    IF t = I.num_gameweeks THEN 0
    ELSE Discount(I, t) * TopPoints(I.entry.picks, XPRow(I, t), STARTING_XI_SIZE)
         + CalculateCurrentExpectedPoints(I, t + 1)

\* transfer_solver_service.py:539-658, and TransferPlan.__init__ (49-71).
TransferPlan(I, sol) ==
    LET weekly  == WeeklySolutions(I, sol, 0, I.free_transfers)
        total   == TotalExpectedPoints(I, weekly, 0)
        current == CalculateCurrentExpectedPoints(I, 0)
    IN  [weekly_solutions |-> weekly,
         total_expected_points |-> total,
         total_transfer_cost |-> TotalTransferCost(weekly, 0),
         current_expected_points |-> current,
         improvement |-> total - current]

-----------------------------------------------------------------------------
(***************************************************************************)
(* The solver backends: the loop of _solve_cvxpy_model that tries them.    *)
(***************************************************************************)
\* transfer_solver_service.py:473-480: the named backends, in the order the
\* code appends them.
NamedBackends == <<"GLPK_MI", "CBC", "SCIP", "ECOS_BB">>

DefaultBackend == "DEFAULT"

\* How one problem.solve call ends: with a status, or with an exception.
Outcomes == {"optimal", "optimal_inaccurate", "infeasible", "raises"}

AcceptedOptimalOnly(status) == status = "optimal"

\* transfer_solver_service.py:499: the statuses that end the loop.
Accepted(status) == status \in {"optimal", "optimal_inaccurate"}

RECURSIVE SelectInstalled(_, _)
SelectInstalled(names, available) ==
    IF names = <<>> THEN <<>>
    ELSE (IF Head(names) \in available THEN <<Head(names)>> ELSE <<>>)
             \o SelectInstalled(Tail(names), available)

\* transfer_solver_service.py:461-485: the installed named backends in
\* order; the default backend only when that list is empty.
SolversToTry(ok, names) ==
    LET available_solvers == IF ok THEN names ELSE {}
        named == SelectInstalled(NamedBackends, available_solvers)
    IN  IF named = <<>> THEN <<DefaultBackend>> ELSE named

BackendIdle ==
    /\ bpc = "off" /\ query_ok = TRUE /\ installed = {} /\ outcome = None
    /\ solvers_to_try = <<>> /\ attempts = <<>> /\ solved = FALSE
    /\ held = None /\ returned_values = None

BackendInit ==
    /\ bpc = "list"
    /\ query_ok \in BOOLEAN
    /\ installed \in SUBSET {NamedBackends[k] : k \in DOMAIN NamedBackends}
    /\ outcome \in [{NamedBackends[k] : k \in DOMAIN NamedBackends}
                        \cup {DefaultBackend} -> Outcomes]
    /\ solvers_to_try = <<>>
    /\ attempts = <<>>
    /\ solved = FALSE
    /\ held = None
    /\ returned_values = None

\* transfer_solver_service.py:461-485.
BuildSolversToTry ==
    /\ bpc = "list"
    /\ bpc' = "loop"
    /\ solvers_to_try' = SolversToTry(query_ok, installed)
    /\ UNCHANGED <<query_ok, installed, outcome, attempts, solved, held,
                   returned_values>>
    /\ UNCHANGED backendFrame

\* transfer_solver_service.py:490-509: one iteration of the loop.  A solve
\* that ends with a status leaves that solve's values in the variables
\* (none unless the status is accepted); one that raises leaves them alone.
TrySolver ==
    /\ bpc = "loop"
    /\ ~solved
    /\ Len(attempts) < Len(solvers_to_try)
    /\ LET solver_name == solvers_to_try[Len(attempts) + 1]
           status      == outcome[solver_name]
       IN  /\ attempts' = Append(attempts, solver_name)
           /\ IF status = "raises"
              THEN UNCHANGED <<solved, held>>
              ELSE /\ solved' = Accepted(status)
                   /\ held' = IF Accepted(status) THEN solver_name ELSE None
    /\ UNCHANGED <<bpc, query_ok, installed, outcome, solvers_to_try,
                   returned_values>>
    /\ UNCHANGED backendFrame

\* transfer_solver_service.py:511-537: RuntimeError unless solved, else the
\* variables' values are returned.
FinishSolve ==
    /\ bpc = "loop"
    /\ solved \/ Len(attempts) = Len(solvers_to_try)
    /\ IF solved
       THEN /\ bpc' = "returned"
            /\ returned_values' = held
       ELSE /\ bpc' = "raised"
            /\ UNCHANGED returned_values
    /\ UNCHANGED <<query_ok, installed, outcome, solvers_to_try, attempts,
                   solved, held>>
    /\ UNCHANGED backendFrame

BackendNext == BuildSolversToTry \/ TrySolver \/ FinishSolve

-----------------------------------------------------------------------------
(***************************************************************************)
(* The upstream client: FPLClient.get under its retry decorator, and the   *)
(* fetch of the entry by TeamRepository.get_team_by_id.                    *)
(***************************************************************************)
\* fpl_client.py:29: stop_after_attempt(3).
STOP_AFTER_ATTEMPT == 3

\* How one call of client.get followed by raise_for_status and json ends:
\* with data, with an HTTP status error (404 for an unknown entry), with a
\* timeout, with a network error, or with any other exception.
Responses == {"ok", "status_404", "status_500", "timeout", "network", "other"}

\* fpl_client.py:49-72: what the body of get returns or raises.  Every
\* except branch raises ExternalAPIException.
GetBody(answer) ==
    IF answer = "ok" THEN "data" ELSE "ExternalAPIException"

\* fpl_client.py:31: retry_if_exception_type((TimeoutException, NetworkError)).
RetryIfExceptionType(raised) == raised \in {"TimeoutException", "NetworkError"}

ClientIdle ==
    /\ cpc = "off" /\ upstream = <<>> /\ attempt_number = 0
    /\ get_outcome = None /\ team_outcome = None

ClientInit ==
    /\ cpc = "get"
    /\ upstream \in [1..STOP_AFTER_ATTEMPT -> Responses]
    /\ attempt_number = 0
    /\ get_outcome = None
    /\ team_outcome = None

\* fpl_client.py:28-72: one call of the body, then the decorator's decision:
\* return the data, call again, or let the exception out.
Get ==
    /\ cpc = "get"
    /\ LET n      == attempt_number + 1
           result == GetBody(upstream[n])
       IN  /\ attempt_number' = n
           /\ IF result # "data" /\ RetryIfExceptionType(result)
                 /\ n < STOP_AFTER_ATTEMPT
              THEN UNCHANGED <<cpc, get_outcome>>
              ELSE /\ cpc' = "team"
                   /\ get_outcome' = result
    /\ UNCHANGED <<upstream, team_outcome>>
    /\ UNCHANGED clientFrame

\* team_repository.py:64-70: any exception of get_entry becomes
\* NotFoundException.
GetTeamById ==
    /\ cpc = "team"
    /\ cpc' = "done"
    /\ team_outcome' = IF get_outcome = "data" THEN "team" ELSE "NotFoundException"
    /\ UNCHANGED <<upstream, attempt_number, get_outcome>>
    /\ UNCHANGED clientFrame

ClientNext == Get \/ GetTeamById

-----------------------------------------------------------------------------
(***************************************************************************)
(* The plan endpoint: generate_transfer_plan.                              *)
(***************************************************************************)
\* models/team.py:37-39: picks and transfers are optional and default to
\* None; transfers, when set, carries free_transfers (team_repository.py:
\* 97-103).  bank is in tenths.
PickLists == {<<>>, <<1>>, [k \in 1..15 |-> k]}

FetchedTeams ==
    {t \in [picks_is_none : BOOLEAN, picks : PickLists,
            transfers_is_none : BOOLEAN, free_transfers : 1..5,
            bank : {0, 5, 23}] :
        /\ t.picks_is_none => t.picks = <<>>
        /\ t.transfers_is_none => t.free_transfers = 1}

NoPicksNoneOnly(t) == t.picks_is_none

\* teams.py:123: not team.picks or len(team.picks) == 0.
NoPicks(t) == t.picks_is_none \/ Len(t.picks) = 0

NoResponse == [sent |-> FALSE, success |-> FALSE, data |-> "None"]

NoArgs == [free_transfers |-> 0, budget |-> 0, num_gameweeks |-> 0]

EndpointIdle ==
    /\ epc = "off" /\ team = None /\ num_gameweeks = 0 /\ solve_ends = None
    /\ solve_args = NoArgs /\ builder_calls = 0 /\ backend_runs = 0
    /\ response = NoResponse

EndpointInit ==
    /\ epc = "start"
    /\ team \in FetchedTeams
    /\ num_gameweeks \in 1..MaxN
    /\ solve_ends \in {"plan", "raises"}
    /\ solve_args = NoArgs
    /\ builder_calls = 0
    /\ backend_runs = 0
    /\ response = NoResponse

\* teams.py:120-141: the picks check, then the arguments of the solve.
CheckPicks ==
    /\ epc = "start"
    /\ IF NoPicks(team)
       THEN /\ epc' = "responded"
            /\ response' = [sent |-> TRUE, success |-> FALSE, data |-> "None"]
            /\ UNCHANGED solve_args
       ELSE /\ epc' = "solving"
            /\ solve_args' =
                   [free_transfers |-> IF team.transfers_is_none THEN 1
                                       ELSE team.free_transfers,
                    budget         |-> team.bank,
                    num_gameweeks  |-> num_gameweeks]
            /\ UNCHANGED response
    /\ UNCHANGED <<team, num_gameweeks, solve_ends, builder_calls, backend_runs>>
    /\ UNCHANGED endpointFrame

\* teams.py:143-150 and transfer_solver_service.py:140-192: solve_transfers
\* builds the MIP and runs the backend loop; its error is not caught.
SolveTransfers ==
    /\ epc = "solving"
    /\ builder_calls' = builder_calls + 1
    /\ backend_runs' = backend_runs + 1
    /\ epc' = IF solve_ends = "plan" THEN "solved" ELSE "raised"
    /\ UNCHANGED <<team, num_gameweeks, solve_ends, solve_args, response>>
    /\ UNCHANGED endpointFrame

\* teams.py:152-182.
RespondWithPlan ==
    /\ epc = "solved"
    /\ epc' = "responded"
    /\ response' = [sent |-> TRUE, success |-> TRUE, data |-> "plan"]
    /\ UNCHANGED <<team, num_gameweeks, solve_ends, solve_args, builder_calls,
                   backend_runs>>
    /\ UNCHANGED endpointFrame

EndpointNext == CheckPicks \/ SolveTransfers \/ RespondWithPlan

-----------------------------------------------------------------------------
(***************************************************************************)
(* The expected-points table: the loop over all players of                 *)
(* calculate_expected_points_next_n_gameweeks.                             *)
(***************************************************************************)
\* What can be wrong with a bootstrap element: nothing; the key "id" is
\* absent; "minutes" is null; the key "form" is absent.
Faults == {"none", "missing_id", "null_minutes", "missing_form"}

\* Two elements, alternating down the list: a regular midfielder and a
\* player who has not played.
SampleElement(k) ==
    IF k % 2 = 1
    THEN [team |-> 1, element_type |-> POS_MID, form |-> 55, xgi |-> 250,
          xgc |-> 110, minutes |-> 360, starts |-> 4]
    ELSE [team |-> 1, element_type |-> POS_FWD, form |-> 0, xgi |-> 0,
          xgc |-> 110, minutes |-> 0, starts |-> 0]

\* expected_points_service.py:385 and 149-150: player["id"] raises KeyError
\* when the key is absent and int(None) raises TypeError; an absent "form"
\* is read as 0 by player.get("form", 0).
Raises(p) == p.fault \in {"missing_id", "null_minutes"}

\* The element as _calculate_player_expected_points reads it.
AsRead(p) ==
    IF p.fault = "missing_form" THEN [p.element EXCEPT !.form = 0] ELSE p.element

\* expected_points_service.py:390-403: the player's list over the horizon;
\* no fixture is scheduled.
HorizonPoints(p) ==
    [i \in 1..MaxN |-> CalculatePlayerExpectedPoints(AsRead(p), NoFixture)]

TableIdle ==
    /\ tpc = "off" /\ players_data = <<>> /\ expected_points_map = <<>>

\* At most two elements of the list have something wrong, of one kind.
TableInit ==
    /\ tpc = "loop"
    /\ \E bad \in {s \in SUBSET (1..MaxPlayers) : Cardinality(s) <= 2},
          fault \in Faults \ {"none"} :
          players_data =
              [k \in 1..MaxPlayers |->
                  [id |-> k, element |-> SampleElement(k),
                   fault |-> IF k \in bad THEN fault ELSE "none"]]
    /\ expected_points_map = <<>>

\* expected_points_service.py:384-405: one player.  An exception leaves the
\* loop and the function: nothing catches it.
TableStep ==
    /\ tpc = "loop"
    /\ Len(expected_points_map) < Len(players_data)
    /\ LET p == players_data[Len(expected_points_map) + 1]
       IN  IF Raises(p)
           THEN /\ tpc' = "raised"
                /\ UNCHANGED expected_points_map
           ELSE /\ expected_points_map' =
                       Append(expected_points_map, <<p.id, HorizonPoints(p)>>)
                /\ UNCHANGED tpc
    /\ UNCHANGED players_data
    /\ UNCHANGED tableFrame

\* expected_points_service.py:407-411.
TableReturn ==
    /\ tpc = "loop"
    /\ Len(expected_points_map) = Len(players_data)
    /\ tpc' = "returned"
    /\ UNCHANGED <<players_data, expected_points_map>>
    /\ UNCHANGED tableFrame

TableNext == TableStep \/ TableReturn

-----------------------------------------------------------------------------
(***************************************************************************)
(* The plan's gameweek: _get_next_event for the table, current_event + 1   *)
(* for the plan.                                                           *)
(***************************************************************************)
\* The id of the first event whose position is in the set, or 0 (None).
FirstOf(events, positions) ==
    IF positions = {} THEN 0
    ELSE events[CHOOSE k \in positions : \A h \in positions : k <= h].id

\* expected_points_service.py:310-328: the first event flagged is_next,
\* else the first event not finished, else None.
GetNextEvent(events) ==
    LET flagged  == {k \in DOMAIN events : events[k].is_next}
        unfinished == {k \in DOMAIN events : ~events[k].finished}
    IN  IF flagged # {} THEN FirstOf(events, flagged)
        ELSE FirstOf(events, unfinished)

EventLists ==
    {[k \in 1..MaxEvents |-> [id |-> k, is_next |-> k \in nx, finished |-> k \in fin]] :
        nx \in SUBSET (1..MaxEvents), fin \in SUBSET (1..MaxEvents)}

GameweekIdle ==
    /\ gpc = "off" /\ events_data = <<>> /\ entry_event = 0
    /\ next_event_id = 0 /\ current_gameweek = 0

\* An entry with picks has a current_event (team_repository.py:82).
GameweekInit ==
    /\ gpc = "start"
    /\ events_data \in EventLists
    /\ entry_event \in 1..MaxEvents
    /\ next_event_id = 0
    /\ current_gameweek = 0

\* expected_points_service.py:372-378: the table's first gameweek.
FindNextEvent ==
    /\ gpc = "start"
    /\ gpc' = "tabled"
    /\ next_event_id' = GetNextEvent(events_data)
    /\ UNCHANGED <<events_data, entry_event, current_gameweek>>
    /\ UNCHANGED gameweekFrame

\* teams.py:166-176: next_gameweek = team.current_event + 1.
BuildPlanData ==
    /\ gpc = "tabled"
    /\ gpc' = "planned"
    /\ current_gameweek' = entry_event + 1
    /\ UNCHANGED <<events_data, entry_event, next_event_id>>
    /\ UNCHANGED gameweekFrame

GameweekNext == FindNextEvent \/ BuildPlanData

-----------------------------------------------------------------------------
(***************************************************************************)
(* The picks cache: _get_team_picks, the transfers dict built by           *)
(* get_team_by_id and the count the endpoint passes to the solver.         *)
(***************************************************************************)
\* teams.py:130-133: the default when team.transfers is not set.
DEFAULT_FREE_TRANSFERS == 1

\* team_repository.py:120-144: the picks and their metadata.  A cache hit
\* returns the picks with empty metadata.
GetTeamPicks(cached, n, history) ==
    IF cached THEN [picks |-> n, entry_history |-> FALSE, from_cache |-> TRUE]
    ELSE [picks |-> n, entry_history |-> history, from_cache |-> FALSE]

\* team_repository.py:90-103 and teams.py:130-133: team.transfers is set
\* only when the metadata carries entry_history; the endpoint falls back
\* to 1.
FreeTransfersPassed(got, ledger) ==
    IF got.entry_history THEN ledger ELSE DEFAULT_FREE_TRANSFERS

PicksIdle ==
    /\ kpc = "off" /\ picks_cached = FALSE /\ upstream_picks = 0
    /\ has_history = FALSE /\ ledger_value = 0 /\ passed_counts = <<>>

\* The cache is cold, or warm from an earlier request over the same
\* upstream data.
PicksInit ==
    /\ kpc = "serving"
    /\ upstream_picks \in {0, 15}
    /\ picks_cached \in {c \in BOOLEAN : c => upstream_picks > 0}
    /\ has_history \in BOOLEAN
    /\ ledger_value \in 1..5
    /\ passed_counts = <<>>

\* One plan generation: get_team_by_id(include_picks=True), then the
\* endpoint's picks check and free_transfers (teams.py:120-133).  A list
\* read back empty from the cache counts as a miss (line 122), so only a
\* non-empty list is held.
ServePlanRequest ==
    /\ kpc = "serving"
    /\ Len(passed_counts) < MaxRequests
    /\ LET got == GetTeamPicks(picks_cached, upstream_picks, has_history)
       IN  /\ picks_cached' = (picks_cached \/ upstream_picks > 0)
           /\ passed_counts' =
                  Append(passed_counts,
                         IF got.picks = 0 THEN 0
                         ELSE FreeTransfersPassed(got, ledger_value))
    /\ UNCHANGED <<kpc, upstream_picks, has_history, ledger_value>>
    /\ UNCHANGED picksFrame

\* team_repository.py:138-142: the cached picks expire after 10 minutes.
ExpirePicks ==
    /\ kpc = "serving"
    /\ picks_cached
    /\ picks_cached' = FALSE
    /\ UNCHANGED <<kpc, upstream_picks, has_history, ledger_value, passed_counts>>
    /\ UNCHANGED picksFrame

PicksNext == ServePlanRequest \/ ExpirePicks

-----------------------------------------------------------------------------
(***************************************************************************)
(* Read-through caches: the player lookup and the all-players expected-    *)
(* points table, as _enrich_picks_with_player_data reads them.  A dict is  *)
(* a set of <<key, value>> entries; a key is <<"int", n>> or <<"str", n>>  *)
(* (the string of decimal digits of n).                                    *)
(***************************************************************************)
BootstrapIds == 1..3

IntKey(n) == <<"int", n>>

\* redis_cache.py:80 and 63: json.dumps turns every object key into a
\* string and json.loads leaves it a string; the values come back equal.
JsonRoundTrip(dict) == { <<<<"str", e[1][2]>>, e[2]>> : e \in dict }

\* dict.get(key) with the default None: <<>> for None, else <<value>>.
DictGet(dict, key) ==
    IF \E e \in dict : e[1] = key
    THEN <<(CHOOSE e \in dict : e[1] = key)[2]>>
    ELSE <<>>

\* team_repository.py:175-190: id -> player data (the web_name stands for
\* the display fields).
BuildPlayersLookup == { <<IntKey(n), [web_name |-> n]>> : n \in BootstrapIds }

\* expected_points_service.py:72-86: id -> expected points.
BuildExpectedPointsMap(xp) == { <<IntKey(n), xp[n]>> : n \in BootstrapIds }

\* team_repository.py:272-291: each pick with its player data and points.
EnrichPicks(picks, players_lookup, all_expected_points) ==
    { [element         |-> n,
       player_name     |-> LET player_data == DictGet(players_lookup, IntKey(n))
                           IN  IF player_data = <<>> THEN <<>>
                               ELSE <<player_data[1].web_name>>,
       expected_points |-> DictGet(all_expected_points, IntKey(n))] :
      n \in picks }

CacheIdle ==
    /\ rpc = "off" /\ upstream_xp = <<>> /\ squad_picks = {}
    /\ lookup_cache = {} /\ xp_cache = {} /\ enriched = <<>>

\* Each cache is cold, or warm from an earlier call over the same upstream
\* data.
CacheInit ==
    /\ rpc = "serving"
    /\ upstream_xp \in [BootstrapIds -> {10, 45}]
    /\ squad_picks \in (SUBSET BootstrapIds) \ {{}}
    /\ lookup_cache \in {{}, JsonRoundTrip(BuildPlayersLookup)}
    /\ xp_cache \in {{}, JsonRoundTrip(BuildExpectedPointsMap(upstream_xp))}
    /\ enriched = <<>>

\* team_repository.py:259-293 with 146-201 and expected_points_service.py:
\* 38-95: one call; each dict is read from the cache when the cache holds
\* it, else built and stored.
EnrichCall ==
    /\ rpc = "serving"
    /\ Len(enriched) < MaxRequests
    /\ LET players_lookup ==
               IF lookup_cache # {} THEN lookup_cache ELSE BuildPlayersLookup
           all_expected_points ==
               IF xp_cache # {} THEN xp_cache
               ELSE BuildExpectedPointsMap(upstream_xp)
       IN  /\ enriched' = Append(enriched,
                  EnrichPicks(squad_picks, players_lookup, all_expected_points))
           /\ lookup_cache' = IF lookup_cache # {} THEN lookup_cache
                              ELSE JsonRoundTrip(BuildPlayersLookup)
           /\ xp_cache' = IF xp_cache # {} THEN xp_cache
                          ELSE JsonRoundTrip(BuildExpectedPointsMap(upstream_xp))
    /\ UNCHANGED <<rpc, upstream_xp, squad_picks>>
    /\ UNCHANGED cacheFrame

\* team_repository.py:194-198: the lookup expires after 10 minutes.
ExpireLookup ==
    /\ rpc = "serving"
    /\ lookup_cache # {}
    /\ lookup_cache' = {}
    /\ UNCHANGED <<rpc, upstream_xp, squad_picks, xp_cache, enriched>>
    /\ UNCHANGED cacheFrame

\* expected_points_service.py:89-91: the table expires after 10 minutes.
ExpireExpectedPoints ==
    /\ rpc = "serving"
    /\ xp_cache # {}
    /\ xp_cache' = {}
    /\ UNCHANGED <<rpc, upstream_xp, squad_picks, lookup_cache, enriched>>
    /\ UNCHANGED cacheFrame

CacheNext == EnrichCall \/ ExpireLookup \/ ExpireExpectedPoints

-----------------------------------------------------------------------------
(***************************************************************************)
(* Purchase prices: the replay of the transfer history by                  *)
(* _get_purchase_prices, and the price _calculate_selling_prices uses.     *)
(***************************************************************************)
TransferredIds == 1..3

\* The current price of a player, in tenths.
NowCost(n) == 40 + 5 * n

\* One record of the transfer history: the fields the replay reads.
TransferRecords ==
    { r \in [element_in : TransferredIds, element_out : TransferredIds,
             element_in_cost : {42, 50}] : r.element_in # r.element_out }

RECURSIVE SeqsUpTo(_, _)
\* The sequences over S of length at most n.
SeqsUpTo(S, n) ==
    IF n = 0 THEN {<<>>}
    ELSE LET shorter == SeqsUpTo(S, n - 1)
         IN  shorter \cup { Append(q, e) : q \in shorter, e \in S }

AsGiven(seq) == seq

\* team_repository.py:221: reversed(transfers_data).
Reversed(seq) == [k \in 1..Len(seq) |-> seq[Len(seq) + 1 - k]]

\* team_repository.py:222-232: one record applied to the dict.
ApplyTransfer(prices, transfer) ==
    LET player_in      == transfer.element_in
        purchase_price == transfer.element_in_cost
        player_out     == transfer.element_out
        after_in == IF player_in # 0 /\ purchase_price # 0
                    THEN {e \in prices : e[1] # player_in}
                             \cup {<<player_in, purchase_price>>}
                    ELSE prices
    IN  IF player_out # 0 /\ (\E e \in after_in : e[1] = player_out)
        THEN {e \in after_in : e[1] # player_out}
        ELSE after_in

\* transfer_solver_service.py:221-222: pick.purchase_price or now_cost.
PurchaseOrNowCost(prices, n) ==
    IF \E e \in prices : e[1] = n
    THEN (CHOOSE e \in prices : e[1] = n)[2]
    ELSE NowCost(n)

PurchaseIdle ==
    /\ ppc = "off" /\ transfers_ok = TRUE /\ transfers_data = <<>>
    /\ replayed = 0 /\ purchase_prices = {} /\ pick_purchase = <<>>

PurchaseInit ==
    /\ ppc = "call"
    /\ transfers_ok \in BOOLEAN
    /\ transfers_data \in SeqsUpTo(TransferRecords, MaxTransfers)
    /\ replayed = 0
    /\ purchase_prices = {}
    /\ pick_purchase = <<>>

\* team_repository.py:212-217 and 237-239: the fetch; on an exception the
\* empty dict is returned.
FetchTransfers ==
    /\ ppc = "call"
    /\ IF transfers_ok
       THEN /\ ppc' = "loop"
            /\ UNCHANGED pick_purchase
       ELSE /\ ppc' = "returned"
            /\ pick_purchase' = [n \in TransferredIds |-> PurchaseOrNowCost({}, n)]
    /\ UNCHANGED <<transfers_ok, transfers_data, replayed, purchase_prices>>
    /\ UNCHANGED purchaseFrame

\* team_repository.py:221-232: one iteration of the replay.
ReplayTransfer ==
    /\ ppc = "loop"
    /\ replayed < Len(transfers_data)
    /\ purchase_prices' =
           ApplyTransfer(purchase_prices, Reversed(transfers_data)[replayed + 1])
    /\ replayed' = replayed + 1
    /\ UNCHANGED <<ppc, transfers_ok, transfers_data, pick_purchase>>
    /\ UNCHANGED purchaseFrame

\* team_repository.py:234-235, then the picks carry the prices to
\* _calculate_selling_prices.
ReturnPurchasePrices ==
    /\ ppc = "loop"
    /\ replayed = Len(transfers_data)
    /\ ppc' = "returned"
    /\ pick_purchase' =
           [n \in TransferredIds |-> PurchaseOrNowCost(purchase_prices, n)]
    /\ UNCHANGED <<transfers_ok, transfers_data, replayed, purchase_prices>>
    /\ UNCHANGED purchaseFrame

PurchaseNext == FetchTransfers \/ ReplayTransfer \/ ReturnPurchasePrices

-----------------------------------------------------------------------------
(***************************************************************************)
(* SPECIFICATIONS                                                          *)
(***************************************************************************)
SolverIdle ==
    /\ pc = "off" /\ inst = None /\ selling_prices = None /\ total_budget = 0
    /\ solution = None /\ plan = None

\* Every component but the named one is idle.
OthersIdle(component) ==
    /\ component = "ledger" \/ LedgerIdle
    /\ component = "xp" \/ XPIdle
    /\ component = "solver" \/ SolverIdle
    /\ component = "backend" \/ BackendIdle
    /\ component = "client" \/ ClientIdle
    /\ component = "endpoint" \/ EndpointIdle
    /\ component = "table" \/ TableIdle
    /\ component = "gameweek" \/ GameweekIdle
    /\ component = "picks" \/ PicksIdle
    /\ component = "cache" \/ CacheIdle
    /\ component = "purchase" \/ PurchaseIdle

InitLedger == LedgerInit /\ OthersIdle("ledger")

\* The ledger replaying one entry history.
SpecLedger == InitLedger /\ [][LedgerNext]_vars

InitXP == XPInit /\ OthersIdle("xp")

\* The engine computing one player's list of expected points.
SpecXP == InitXP /\ [][XPNext]_vars

SolverInit ==
    /\ pc = "start"
    /\ inst \in Instances
    /\ selling_prices = None
    /\ total_budget = 0
    /\ solution = None
    /\ plan = None

\* transfer_solver_service.py:156-162: selling prices, then the budget.
CalculateBudget ==
    /\ pc = "start"
    /\ pc' = "budgeted"
    /\ selling_prices' = CalculateSellingPrices(inst.entry)
    /\ total_budget' = CalculateTotalBudget(inst.entry, selling_prices')
    /\ UNCHANGED <<inst, solution, plan>>
    /\ UNCHANGED solverFrame

\* transfer_solver_service.py:167-176, 457-537: a backend returns an
\* optimal solution of the program; or no backend reports an optimal status
\* (the program is infeasible, or every backend fails) and RuntimeError is
\* raised.
SolveCvxpyModel ==
    /\ pc = "budgeted"
    /\ LET optimal == OptimalSolutions(inst, total_budget)
       IN  \/ /\ pc' = "failed"
              /\ UNCHANGED solution
           \/ /\ pc' = "solved"
              /\ \E sol \in optimal : solution' = sol
    /\ UNCHANGED <<inst, selling_prices, total_budget, plan>>
    /\ UNCHANGED solverFrame

\* transfer_solver_service.py:178-186: the plan is extracted and returned.
ExtractTransferPlan ==
    /\ pc = "solved"
    /\ pc' = "planned"
    /\ plan' = TransferPlan(inst, solution)
    /\ UNCHANGED <<inst, selling_prices, total_budget, solution>>
    /\ UNCHANGED solverFrame

SolverNext == CalculateBudget \/ SolveCvxpyModel \/ ExtractTransferPlan

InitSolver == SolverInit /\ OthersIdle("solver")

\* One plan generation by TransferSolverService.solve_transfers.
Spec == InitSolver /\ [][SolverNext]_vars

InitBackend == BackendInit /\ OthersIdle("backend")

\* One run of the backend loop of _solve_cvxpy_model.
SpecBackend == InitBackend /\ [][BackendNext]_vars

InitClient == ClientInit /\ OthersIdle("client")

\* One fetch of an entry by TeamRepository.get_team_by_id.
SpecClient == InitClient /\ [][ClientNext]_vars

InitEndpoint == EndpointInit /\ OthersIdle("endpoint")

\* One request to generate_transfer_plan.
SpecEndpoint == InitEndpoint /\ [][EndpointNext]_vars

InitTable == TableInit /\ OthersIdle("table")

\* One call of calculate_expected_points_next_n_gameweeks.
SpecTable == InitTable /\ [][TableNext]_vars

InitGameweek == GameweekInit /\ OthersIdle("gameweek")

\* The gameweek of one plan: the table's first step and the plan's label.
SpecGameweek == InitGameweek /\ [][GameweekNext]_vars

InitPicks == PicksInit /\ OthersIdle("picks")

\* Plan generations for one entry over unchanged upstream data.
SpecPicks == InitPicks /\ [][PicksNext]_vars

InitCache == CacheInit /\ OthersIdle("cache")

\* Calls of _enrich_picks_with_player_data over unchanged upstream data.
SpecCache == InitCache /\ [][CacheNext]_vars

InitPurchase == PurchaseInit /\ OthersIdle("purchase")

\* One call of _get_purchase_prices.
SpecPurchase == InitPurchase /\ [][PurchaseNext]_vars

-----------------------------------------------------------------------------
(***************************************************************************)
(* PROPERTIES                                                              *)
(***************************************************************************)
Produced == pc = "planned"

Range(seq) == {seq[k] : k \in DOMAIN seq}

\* The free transfers available entering week t of a solution.
FreeAvailable(I, sol, t) ==
    IF t = 0 THEN I.free_transfers
    ELSE sol.weeks[t].free_transfers_remaining

\* C1: in every week of a produced plan the solver's squad has exactly 15
\* players: 2 GK, 5 DEF, 5 MID and 3 FWD.
C1_SquadShape ==
    Produced =>
        \A k \in DOMAIN solution.weeks :
            LET S == solution.weeks[k].squad
            IN  /\ Cardinality(S) = 15
                /\ Cardinality({i \in S : AllPlayers[i].element_type = POS_GK}) = 2
                /\ Cardinality({i \in S : AllPlayers[i].element_type = POS_DEF}) = 5
                /\ Cardinality({i \in S : AllPlayers[i].element_type = POS_MID}) = 5
                /\ Cardinality({i \in S : AllPlayers[i].element_type = POS_FWD}) = 3

\* A plan over three weeks whose squad changes after week 0.
C1_Witness ==
    /\ Produced
    /\ inst.num_gameweeks = 3
    /\ \E k \in 2..3 : solution.weeks[k].squad # solution.weeks[1].squad

\* The squad obtained by applying the plan's reported transfers of weeks
\* 0..t to the current squad.
RECURSIVE ReportedSquad(_, _, _)
ReportedSquad(picks, weekly, t) ==
    IF t < 0 THEN picks
    ELSE (ReportedSquad(picks, weekly, t - 1) \cup Range(weekly[t + 1].transfers_in))
             \ Range(weekly[t + 1].transfers_out)

\* C2: applying the reported transfers of weeks 0..t to the current squad
\* never leaves more than 3 players of one club in the squad.
C2_ReportedClubCap ==
    Produced =>
        \A t \in 0..(inst.num_gameweeks - 1) :
            \A team_id \in Teams :
                Cardinality({i \in ReportedSquad(inst.entry.picks,
                                                 plan.weekly_solutions, t) :
                                AllPlayers[i].team = team_id}) <= 3

\* C3: in every week, week 0 included, the solver's squad is the previous
\* squad plus the reported transfers in minus the reported transfers out.
C3_SquadFlow ==
    Produced =>
        \A t \in 0..(inst.num_gameweeks - 1) :
            LET previous == IF t = 0 THEN inst.entry.picks
                            ELSE solution.weeks[t].squad
                reported == plan.weekly_solutions[t + 1]
            IN  solution.weeks[t + 1].squad
                    = (previous \cup Range(reported.transfers_in))
                          \ Range(reported.transfers_out)

LegalSquads ==
    { S \in KSubsets(PlayerIds, 15) :
        /\ \A position \in Positions :
              Cardinality({i \in S : AllPlayers[i].element_type = position})
                  = <<2, 5, 5, 3>>[position]
        /\ \A team_id \in Teams :
              Cardinality({i \in S : AllPlayers[i].team = team_id}) <= 3 }

CheapestLegalSquad(picks) ==
    /\ picks \in LegalSquads
    /\ \A S \in LegalSquads : SquadCost(picks) <= SquadCost(S)

MinimalNoOpCase ==
    /\ Produced
    /\ inst.num_gameweeks = 1
    /\ inst.discount_factor = <<1, 1>>
    /\ inst.free_transfers = 1
    /\ CheapestLegalSquad(inst.entry.picks)

\* C4: for N = 1, discount 1, one free transfer and the cheapest legal
\* squad, the plan's single week reports no transfers, no free transfer
\* used, no hit and 2 free transfers left.
C4_MinimalNoOp ==
    MinimalNoOpCase =>
        /\ Len(plan.weekly_solutions) = 1
        /\ plan.weekly_solutions[1].transfers_in = <<>>
        /\ plan.weekly_solutions[1].transfers_out = <<>>
        /\ plan.weekly_solutions[1].free_transfers_used = 0
        /\ plan.weekly_solutions[1].transfer_cost = 0
        /\ plan.weekly_solutions[1].free_transfers_remaining = 2

\* C5: in every solution returned, each week's paid-transfer count is
\* max(0, transfers in - free transfers available entering the week).
C5_PaidIsShortfall ==
    pc \in {"solved", "planned"} =>
        \A t \in 0..(inst.num_gameweeks - 1) :
            solution.weeks[t + 1].paid_transfers
                = Max(0, Cardinality(solution.weeks[t + 1].transfers_in)
                             - FreeAvailable(inst, solution, t))

RECURSIVE SolverTotal(_, _, _)
SolverTotal(I, sol, t) ==
    IF t = I.num_gameweeks THEN 0
    ELSE Discount(I, t)
             * (Dot(sol.starting[t + 1], XPRow(I, t))
                    - 10 * 4 * sol.weeks[t + 1].paid_transfers)
         + SolverTotal(I, sol, t + 1)

\* C6: the reported total is the discounted sum of the starting XI's points
\* minus 4 per transfer the solver paid for, and each week's reported hit
\* cost is 4 times the solver's paid-transfer count of that week.
C6_TotalsAgree ==
    Produced =>
        /\ plan.total_expected_points = SolverTotal(inst, solution, 0)
        /\ \A t \in 0..(inst.num_gameweeks - 1) :
              plan.weekly_solutions[t + 1].transfer_cost
                  = 4 * solution.weeks[t + 1].paid_transfers

\* C7: whatever the history and current_event, the ledger returns an
\* integer from 1 to 5.
C7_LedgerRange == lpc = "returned" => ft_result \in 1..5

IdleFromGW1 ==
    /\ lpc = "returned"
    /\ fetch_ok
    /\ first_event = 1
    /\ hist_len = current_event
    /\ current_event >= 1
    /\ all_idle

\* C8: after k idle gameweeks from GW1 with current_event = k, the ledger
\* returns min(k, 5).
C8_IdleCap == IdleFromGW1 => ft_result = Min(current_event, 5)

\* Seven idle gameweeks were replayed and 5 is returned.
C8_Witness == IdleFromGW1 /\ current_event = 7 /\ idx = 7 /\ ft_result = 5

\* The selling price of the claim, in twentieths:
\* p_buy + floor((p_now - p_buy) / 2) tenths on a profit, else p_now.
ClaimedSellingPrice(p_now, p_buy) ==
    IF p_now >= p_buy THEN 2 * (p_buy + (p_now - p_buy) \div 2)
    ELSE 2 * p_now

\* C9: each pick's selling price is the purchase price plus half the
\* profit rounded down to a whole tenth, or the current price on a loss.
C9_SellingPriceFloored ==
    pc \in {"budgeted", "solved", "failed", "planned"} =>
        \A i \in inst.entry.picks \cap PlayerIds :
            LET p_now == AllPlayers[i].now_cost
                p_buy == IF inst.entry.bought[i] # 0 THEN inst.entry.bought[i]
                         ELSE p_now
            IN  selling_prices[i] = ClaimedSellingPrice(p_now, p_buy)

\* C10: a horizon step with no fixture for the player's club yields at
\* most 1.0 expected points.
C10_BlankGameweek ==
    xpc # "off" =>
        \A k \in DOMAIN gameweek_points :
            GetNextFixtureForTeam(fixtures, player.team, k) = NoFixture
                => gameweek_points[k] <= 10

\* C11: every computed expected-points value lies in [0.5, 8.0].
C11_XPBounded ==
    xpc # "off" =>
        \A k \in DOMAIN gameweek_points :
            gameweek_points[k] >= 5 /\ gameweek_points[k] <= 80

\* A player in top form meets an easy home fixture and the value is held at
\* the ceiling.
C11_Witness ==
    /\ xpc = "returned"
    /\ player.form = 100
    /\ player.starts > 0
    /\ \E k \in DOMAIN gameweek_points :
          /\ gameweek_points[k] = 80
          /\ GetNextFixtureForTeam(fixtures, player.team, k).team_h = player.team
          /\ GetNextFixtureForTeam(fixtures, player.team, k).team_h_difficulty = 1

\* C12: a player with starts = 0 gets exactly 1.0 at every horizon step.
C12_NeverStarted ==
    (xpc # "off" /\ player.starts = 0) =>
        \A k \in DOMAIN gameweek_points : gameweek_points[k] = 10

\* A substitute with minutes and top form but no start, over the whole
\* horizon, one step of which has a fixture.
C12_Witness ==
    /\ xpc = "returned"
    /\ player.starts = 0
    /\ player.minutes > 0
    /\ player.form = 100
    /\ Len(gameweek_points) = MaxN
    /\ \E k \in DOMAIN gameweek_points :
          GetNextFixtureForTeam(fixtures, player.team, k) # NoFixture

\* The form values (tenths) a player's form is raised to.
FormGrid == {0, 5, 10, 20, 30, 55, 80, 100}

\* C13: raising form, everything else fixed, never lowers the value.
C13_MonotoneInForm ==
    xpc # "off" =>
        \A k \in DOMAIN gameweek_points :
            \A raised \in FormGrid :
                raised > player.form =>
                    CalculatePlayerExpectedPoints(
                        [player EXCEPT !.form = raised],
                        GetNextFixtureForTeam(fixtures, player.team, k))
                      >= gameweek_points[k]

SingleWeekUndiscounted ==
    /\ Produced
    /\ inst.num_gameweeks = 1
    /\ inst.discount_factor = <<1, 1>>

\* The sum of the k highest values of row over the players of S.
RECURSIVE HighestSum(_, _, _)
HighestSum(S, row, k) ==
    IF k = 0 \/ S = {} THEN 0
    ELSE LET best == CHOOSE i \in S : \A j \in S : row[j] <= row[i]
         IN  row[best] + HighestSum(S \ {best}, row, k - 1)

\* C14: with N = 1 and discount 1 the plan's total is the sum of the 11
\* highest expected-points values of the current squad, and the reported
\* improvement is 0.
C14_BaselineAtN1 ==
    SingleWeekUndiscounted =>
        /\ plan.total_expected_points
               = HighestSum(inst.entry.picks, XPRow(inst, 0), 11)
        /\ plan.improvement = 0

BackendDone == bpc \in {"returned", "raised"}

\* attempts keeps the fixed order and skips what is not installed.
RECURSIVE InFixedOrder(_, _)
InFixedOrder(tried, order) ==
    IF tried = <<>> THEN TRUE
    ELSE IF order = <<>> THEN FALSE
    ELSE IF Head(tried) = Head(order) THEN InFixedOrder(Tail(tried), Tail(order))
    ELSE InFixedOrder(tried, Tail(order))

NamedAttempts == {attempts[k] : k \in DOMAIN attempts} \ {"DEFAULT"}

\* C15: backends are attempted in the order GLPK_MI, CBC, SCIP, ECOS_BB,
\* default, skipping those not installed, and the default backend is
\* attempted last whenever every installed named backend has failed.
C15_BackendOrder ==
    BackendDone =>
        /\ InFixedOrder(attempts, <<"GLPK_MI", "CBC", "SCIP", "ECOS_BB", "DEFAULT">>)
        /\ query_ok => NamedAttempts \subseteq installed
        /\ (\A k \in DOMAIN attempts :
               attempts[k] # "DEFAULT"
                   => outcome[attempts[k]] \notin {"optimal", "optimal_inaccurate"})
             => (attempts # <<>> /\ attempts[Len(attempts)] = "DEFAULT")

\* The first backend, in the order of the list, that ends with an accepted
\* status: its position in the list, or 0.
FirstAccepted ==
    LET hits == {k \in DOMAIN solvers_to_try :
                    outcome[solvers_to_try[k]] \in {"optimal", "optimal_inaccurate"}}
    IN  IF hits = {} THEN 0 ELSE CHOOSE k \in hits : \A h \in hits : k <= h

\* C16: the values returned are those of the first backend that ends with
\* optimal or optimal_inaccurate, and no backend is attempted after it; if
\* none does, the error is raised and no values reach the caller.
C16_FirstAcceptedWins ==
    BackendDone =>
        IF FirstAccepted = 0
        THEN /\ bpc = "raised"
             /\ returned_values = None
             /\ attempts = solvers_to_try
        ELSE /\ bpc = "returned"
             /\ returned_values = solvers_to_try[FirstAccepted]
             /\ attempts = SubSeq(solvers_to_try, 1, FirstAccepted)

\* Two backends failed (one with a status, one with an exception), the third
\* ended optimal_inaccurate and a fourth, installed, was not attempted.
C16_Witness ==
    /\ bpc = "returned"
    /\ Len(attempts) = 3
    /\ Len(solvers_to_try) = 4
    /\ outcome[attempts[1]] = "infeasible"
    /\ outcome[attempts[2]] = "raises"
    /\ outcome[attempts[3]] = "optimal_inaccurate"
    /\ returned_values = attempts[3]

Transient == {"timeout", "network"}

\* The attempt that ends the request when transient failures are retried:
\* the first whose response is not transient, or the last one allowed.
DecidingAttempt ==
    LET ends == {k \in DOMAIN upstream : upstream[k] \notin Transient}
    IN  IF ends = {} THEN Len(upstream)
        ELSE CHOOSE k \in ends : \A h \in ends : k <= h

\* C17: a GET that fails with a timeout or a transient network error is
\* attempted again, up to 3 attempts in total, before the failure is
\* surfaced; a request whose 1st attempt times out and whose 2nd or 3rd
\* attempt would succeed returns its data.
C17_TransientRetried ==
    cpc \in {"team", "done"} =>
        /\ attempt_number = DecidingAttempt
        /\ upstream[DecidingAttempt] = "ok" => get_outcome = "data"

\* The response that ended the request.
LastResponse == upstream[attempt_number]

\* C18: a transport failure while fetching the entry reaches the caller as
\* an upstream-unavailable error; NotFound is raised only when the entry is
\* unknown.
C18_TransportNotNotFound ==
    cpc = "done" =>
        /\ LastResponse \in Transient => team_outcome = "ExternalAPIException"
        /\ team_outcome = "NotFoundException" => LastResponse = "status_404"

EmptySquad == epc # "off" /\ Len(team.picks) = 0

\* C19: when the entry's current squad is empty, plan generation returns
\* success = false with no plan data, and neither the MIP builder nor any
\* solver backend is invoked.
C19_EmptySquadNotSolved ==
    EmptySquad =>
        /\ builder_calls = 0
        /\ backend_runs = 0
        /\ epc \in {"start", "responded"}
        /\ epc = "responded" =>
               response = [sent |-> TRUE, success |-> FALSE, data |-> "None"]

\* An entry whose picks are an empty list has been answered.
C19_Witness ==
    /\ epc = "responded"
    /\ ~team.picks_is_none
    /\ team.picks = <<>>
    /\ response.sent /\ ~response.success

\* The players whose computation fails.
Affected == {k \in DOMAIN players_data : Raises(players_data[k])}

\* C20: if computing expected points fails for one player, that player's
\* value is 1.0 at each step and the table is still produced for every
\* other player; the whole computation fails only when more than 10% of
\* the players are affected.
C20_PerPlayerTolerance ==
    tpc \in {"returned", "raised"} =>
        IF 10 * Cardinality(Affected) > Len(players_data)
        THEN tpc = "raised"
        ELSE /\ tpc = "returned"
             /\ Len(expected_points_map) = Len(players_data)
             /\ \A k \in DOMAIN players_data :
                    expected_points_map[k][2] =
                        IF k \in Affected THEN [i \in 1..MaxN |-> 10]
                        ELSE HorizonPoints(players_data[k])

\* C21: the plan's current_gameweek equals the gameweek that horizon step 0
\* of the expected-points table was computed for, for every combination of
\* event flags and entry state.
C21_PlanGameweekIsTableGameweek ==
    (gpc = "planned" /\ next_event_id # 0) => current_gameweek = next_event_id

Clamp(x, lo, hi) == Max(lo, Min(hi, x))

\* C22: in every produced plan and every week t, the solver's free-transfer
\* state is within 0..5 and equals clamp(free_avail_t + 1 - n_t + paid_t,
\* 0, 5), where free_avail_t is the count given at t = 0 and ft[t-1] after.
C22_FreeTransferState ==
    Produced =>
        \A t \in 0..(inst.num_gameweeks - 1) :
            LET w == solution.weeks[t + 1]
                x == FreeAvailable(inst, solution, t) + 1
                         - Cardinality(w.transfers_in) + w.paid_transfers
            IN  /\ w.free_transfers_remaining \in 0..5
                /\ w.free_transfers_remaining = Clamp(x, 0, 5)

\* A plan over several weeks that enters a later week with 5 free transfers
\* and leaves it with 5.
C22_Witness ==
    /\ Produced
    /\ \E t \in 1..(inst.num_gameweeks - 1) :
          /\ FreeAvailable(inst, solution, t) = 5
          /\ solution.weeks[t + 1].free_transfers_remaining = 5

\* The reference step, where it is defined: a chip that resets the count, a
\* gameweek with transfers of which free_used >= 0 were free, or a gameweek
\* without transfers.
ReferenceDefined(rec) ==
    \/ rec.active_chip \in {"wildcard", "freehit"}
    \/ /\ rec.event_transfers > 0
       /\ rec.event_transfers - rec.event_transfers_cost \div 4 >= 0
    \/ /\ rec.event_transfers = 0
       /\ rec.event_transfers_cost = 0

ReferenceStep(ft, rec) ==
    IF rec.active_chip \in {"wildcard", "freehit"} THEN 1
    ELSE IF rec.event_transfers > 0
    THEN Clamp(ft - (rec.event_transfers - rec.event_transfers_cost \div 4) + 1, 1, 5)
    ELSE Min(ft + 1, 5)

\* C23: for every prior count in 0..5 and every record, the ledger's update
\* for the record equals the reference step: 1 after a wildcard or free
\* hit, clamp(ft - free_used + 1, 1, 5) after transfers, min(ft + 1, 5)
\* after none.
C23_LedgerStepIsReference ==
    [][(idx' = idx + 1 /\ available_ft \in 0..5 /\ ReferenceDefined(gw_data'))
           => available_ft' = ReferenceStep(available_ft, gw_data')]_vars

\* C24: for each week t the plan's reported free_transfers_remaining equals
\* ft[t] = free_avail_t + 1 - n_t + paid_t, the count carried into week
\* t + 1.
C24_ReportedFreeLeft ==
    Produced =>
        \A t \in 0..(inst.num_gameweeks - 1) :
            LET w == solution.weeks[t + 1]
            IN  /\ plan.weekly_solutions[t + 1].free_transfers_remaining
                       = w.free_transfers_remaining
                /\ plan.weekly_solutions[t + 1].free_transfers_remaining
                       = FreeAvailable(inst, solution, t) + 1
                             - Cardinality(w.transfers_in) + w.paid_transfers

\* The (GK, DEF, MID, FWD) count of a starting XI.
Formation(X) ==
    << PositionCount(X, POS_GK), PositionCount(X, POS_DEF),
       PositionCount(X, POS_MID), PositionCount(X, POS_FWD) >>

\* C25: every starting XI the model admits inside a 2-5-5-3 squad has a
\* (GK, DEF, MID, FWD) count listed in VALID_FORMATIONS.
C25_AdmittedFormations ==
    pc \in {"solved", "planned"} =>
        \A k \in DOMAIN solution.weeks :
            \A X \in StartingXIs(solution.weeks[k].squad) :
                Formation(X) \in VALID_FORMATIONS

\* The free-transfer counts that may be available entering week t.
EnteringCounts(I, t) == IF t = 0 THEN {I.free_transfers} ELSE 0..5

\* C26: for every week t of the horizon, t = 0 included, and every
\* free-transfer count in 0..5 available entering it, the free-transfer
\* constraints admit zero transfers with zero paid transfers.
C26_HoldAdmitted ==
    pc \in {"start", "budgeted", "solved", "planned"} =>
        \A t \in 0..(inst.num_gameweeks - 1) :
            \A free_available \in EnteringCounts(inst, t) :
                \E a \in FreeTransferOptions(inst, t, 0, free_available) :
                    a.paid_transfers = 0

\* The entry's current squad is a legal squad of known players.
LegalCurrentSquad(entry) ==
    /\ entry.picks \subseteq PlayerIds
    /\ SquadQuota(entry.picks)
    /\ TeamCap(entry.picks)

\* C27: for an entry whose current squad is a legal 15-player squad and
\* whose bank is >= 0, and any purchase prices, the total budget is at least
\* the sum of the current prices of the current squad, so the squad pinned
\* at week 0 satisfies the budget constraint.
C27_BudgetCoversCurrentSquad ==
    (pc \in {"budgeted", "solved", "failed", "planned"}
         /\ LegalCurrentSquad(inst.entry) /\ inst.entry.bank >= 0)
        => /\ total_budget >= 2 * SquadCost(inst.entry.picks)
           /\ WithinBudget(CurrentSquadVector(inst), total_budget)

\* C28: the free-transfer count passed to the solver does not depend on the
\* cache state: plan generations over identical upstream data all use the
\* ledger's replayed value, whether the picks came from the cache or from
\* upstream.
C28_CountIndependentOfCache ==
    (kpc = "serving" /\ upstream_picks > 0 /\ has_history) =>
        \A k \in DOMAIN passed_counts : passed_counts[k] = ledger_value

\* C29: the expected points and display metadata attached to the picks are
\* the same when the table and the lookup are served from the cache as when
\* they are computed from upstream on a miss.
C29_ReadThroughTransparent ==
    rpc = "serving" =>
        \A k \in DOMAIN enriched :
            enriched[k] = EnrichPicks(squad_picks, BuildPlayersLookup,
                                      BuildExpectedPointsMap(upstream_xp))

\* The position, counted from the oldest record, of the most recent
\* transfer in of player n; 0 when there is none.
LastTransferIn(n) ==
    LET total == Len(transfers_data)
        ins   == {k \in 1..total : transfers_data[total + 1 - k].element_in = n}
    IN  IF ins = {} THEN 0 ELSE CHOOSE k \in ins : \A h \in ins : h <= k

\* Player n was transferred in and not transferred out in any later record.
StillOwned(n) ==
    LET total == Len(transfers_data)
    IN  /\ LastTransferIn(n) # 0
        /\ \A j \in (LastTransferIn(n) + 1)..total :
               transfers_data[total + 1 - j].element_out # n

\* C30: after the replay the purchase-price map holds exactly the players
\* transferred in and not transferred out in any later record, each with
\* the cost of their most recent transfer in; if the fetch fails the map is
\* empty and every pick falls back to its current price.
C30_PurchasePrices ==
    ppc = "returned" =>
        IF transfers_ok
        THEN /\ purchase_prices =
                    { <<n, transfers_data[Len(transfers_data) + 1
                                              - LastTransferIn(n)].element_in_cost>> :
                      n \in {m \in TransferredIds : StillOwned(m)} }
             /\ \A n \in TransferredIds :
                    ~StillOwned(n) => pick_purchase[n] = NowCost(n)
        ELSE /\ purchase_prices = {}
             /\ \A n \in TransferredIds : pick_purchase[n] = NowCost(n)

\* A player was bought, sold and bought again at another price, and the map
\* holds the later price.
C30_Witness ==
    /\ ppc = "returned"
    /\ transfers_ok
    /\ Len(transfers_data) = 3
    /\ transfers_data[3].element_in = 1 /\ transfers_data[3].element_in_cost = 42
    /\ transfers_data[2].element_out = 1
    /\ transfers_data[1].element_in = 1 /\ transfers_data[1].element_in_cost = 50
    /\ purchase_prices = {<<1, 50>>}

=============================================================================
